---- MODULE Spec2Model ----
(***************************************************************************)
(* zotero-git-sync: one run of _sync clones the repository, reads the      *)
(* ledger (.zotero), renames or quarantines the existing PDF files,        *)
(* downloads the attachments of items the ledger does not know, rewrites   *)
(* the ledger and, if the working tree is dirty, commits, pulls, pushes    *)
(* twice and checks the status text.                                       *)
(*                                                                         *)
(* Strings are sequences of one-character strings, so that the string      *)
(* functions of the program (normalisation, splitting, formatting) are     *)
(* computed and not assumed.                                               *)
(***************************************************************************)
EXTENDS Integers, Sequences, FiniteSets, TLC

VARIABLES
    upstream,        \* the tree at the tip of the remote git repository
    pc,              \* position of the run inside _sync
    items,           \* the list of items _get_items got from the collection
    wt,              \* working tree of the temporary clone
    head,            \* tree of the local HEAD commit
    baseTree,        \* tree of the commit the clone started from
    behind,          \* upstream holds a commit the clone has not fetched
    trackingPushed,  \* origin/<branch> = HEAD: nothing left to push
    lock,            \* result of _read_lock: item id -> file name
    todo_paths,      \* members of existing_paths the loop has not visited yet
    item_paths,      \* list of (item_id, old_path, new_path)
    next_download,   \* index into download_items
    runs,            \* number of runs started
    otherPushes,     \* number of pushes by other writers
    hist,            \* what the current run has done so far (observations)
    call             \* a function of the program applied to an argument

\* The state of one run: it lives in the temporary directory of the clone.
local == <<items, wt, head, baseTree, behind, trackingPushed, lock,
           todo_paths, item_paths, next_download>>

vars == <<upstream, pc, local, runs, otherPushes, hist, call>>

(***************************************************************************)
(* Bounds of the model.                                                    *)
(***************************************************************************)
MaxRuns == 2
MaxOtherPushes == 1

(***************************************************************************)
(* Characters and strings.                                                 *)
(***************************************************************************)
\* An optional value: None, or Some(x).
None == <<>>
Some(x) == <<x>>
Value(opt) == opt[1]

Uppers == <<"A", "B", "C", "L", "I">>
Lowers == <<"a", "b", "c", "l", "i">>

\* The characters of the model in code point order (for sorted()).
CharOrder ==
    <<"\t", "\n", " ", "!", "\"", "&", "'", "(", ")", "+", ",", "-", ".",
      "/", "0", "1", "2", "3", "4", "5", "6", "7", "8", "9", ":", ";", "?",
      "A", "B", "C", "I", "L", "[", "]", "_", "a", "b", "c", "d", "e", "f",
      "i", "l", "n", "o", "p", "r", "t", "u", "x", "é">>

CharRank(c) == CHOOSE i \in 1..Len(CharOrder) : CharOrder[i] = c

\* str < str of Python: lexicographic by code point.
RECURSIVE StrLess(_, _)
StrLess(s, t) ==
    IF t = <<>> THEN FALSE
    ELSE IF s = <<>> THEN TRUE
    ELSE IF Head(s) = Head(t) THEN StrLess(Tail(s), Tail(t))
    ELSE CharRank(Head(s)) < CharRank(Head(t))

\* str.lower() on one character.
Lower(c) ==
    IF \E i \in 1..Len(Uppers) : Uppers[i] = c
    THEN Lowers[CHOOSE i \in 1..Len(Uppers) : Uppers[i] = c]
    ELSE c

\* unidecode() on one character: ASCII is kept, the rest transliterated.
UnidecodeChar(c) == IF c = "é" THEN <<"e">> ELSE <<c>>

RECURSIVE unidecode(_)
unidecode(s) ==
    IF s = <<>> THEN <<>> ELSE UnidecodeChar(Head(s)) \o unidecode(Tail(s))

\* The characters _normalize_name replaces by a hyphen.
Replaced ==
    {"\n", "\"", "'", ".", ":", ";", ",", "!", "?", "(", ")", "[", "]",
     "+", "&", "_", " "}

\* sub(r"-+", "-", name)
RECURSIVE CollapseHyphens(_)
CollapseHyphens(s) ==
    IF Len(s) < 2 THEN s
    ELSE IF s[1] = "-" /\ s[2] = "-" THEN CollapseHyphens(Tail(s))
    ELSE <<s[1]>> \o CollapseHyphens(Tail(s))

removeprefix(s, c) == IF s # <<>> /\ s[1] = c THEN Tail(s) ELSE s
removesuffix(s, c) ==
    IF s # <<>> /\ s[Len(s)] = c THEN SubSeq(s, 1, Len(s) - 1) ELSE s

\* Mutant: runs of hyphens are collapsed before the characters are replaced.
_normalize_name_collapsing_first(name) ==
    LET decoded == unidecode(name)
        lowered == [i \in 1..Len(decoded) |-> Lower(decoded[i])]
        collapsed == CollapseHyphens(lowered)
        hyphened == [i \in 1..Len(collapsed) |->
                        IF collapsed[i] \in Replaced THEN "-" ELSE collapsed[i]]
    IN  removesuffix(removeprefix(hyphened, "-"), "-")

_normalize_name(name) ==
    LET decoded == unidecode(name)
        lowered == [i \in 1..Len(decoded) |-> Lower(decoded[i])]
        hyphened == [i \in 1..Len(lowered) |->
                        IF lowered[i] \in Replaced THEN "-" ELSE lowered[i]]
        collapsed == CollapseHyphens(hyphened)
    IN  removesuffix(removeprefix(collapsed, "-"), "-")

\* str.split(sep) with an explicit separator: empty fields are kept.
RECURSIVE SplitOn(_, _)
SplitOn(s, sep) ==
    IF \A i \in 1..Len(s) : s[i] # sep THEN <<s>>
    ELSE LET k == CHOOSE i \in 1..Len(s) :
                      s[i] = sep /\ \A j \in 1..(i - 1) : s[j] # sep
         IN  <<SubSeq(s, 1, k - 1)>> \o SplitOn(SubSeq(s, k + 1, Len(s)), sep)

Whitespace == {" ", "\t", "\n"}

\* str.split() without separator: fields between runs of whitespace.
RECURSIVE SplitWhitespace(_)
SplitWhitespace(s) ==
    IF s = <<>> THEN <<>>
    ELSE IF s[1] \in Whitespace THEN SplitWhitespace(Tail(s))
    ELSE LET n == IF \E i \in 1..Len(s) : s[i] \in Whitespace
                  THEN (CHOOSE i \in 1..Len(s) :
                            s[i] \in Whitespace
                            /\ \A j \in 1..(i - 1) : s[j] \notin Whitespace) - 1
                  ELSE Len(s)
         IN  <<SubSeq(s, 1, n)>> \o SplitWhitespace(SubSeq(s, n + 1, Len(s)))

\* str(n) for n >= 0.
Digit(d) == CharOrder[CharRank("0") + d]
RECURSIVE Str(_)
Str(n) == IF n < 10 THEN <<Digit(n)>> ELSE Str(n \div 10) \o <<Digit(n % 10)>>

\* Path.suffix and Path.stem of a file name.
LastDot(name) ==
    IF \E i \in 1..Len(name) : name[i] = "."
    THEN CHOOSE i \in 1..Len(name) :
             name[i] = "." /\ \A j \in (i + 1)..Len(name) : name[j] # "."
    ELSE 0
suffix(name) ==
    LET i == LastDot(name)
    IN  IF 1 < i /\ i < Len(name) THEN SubSeq(name, i, Len(name)) ELSE <<>>
stem(name) ==
    LET i == LastDot(name)
    IN  IF 1 < i /\ i < Len(name) THEN SubSeq(name, 1, i - 1) ELSE name

DotPdf == <<".", "p", "d", "f">>

(***************************************************************************)
(* Items of the Zotero collection.                                         *)
(***************************************************************************)
Pdf == "application/pdf"
Html == "text/html"

Author(lastName) == [creatorType |-> "author", lastName |-> lastName]
AuthorByName(name) == [creatorType |-> "author", name |-> name]
Editor(lastName) == [creatorType |-> "editor", lastName |-> lastName]

Href1 == <<"u", "/", "I", "1">>
Href2 == <<"u", "/", "I", "2">>
Href3 == <<"u", "/", "I", "3">>

\* Item I1 as first catalogued, with its title corrected, and with a title
\* that holds a tabulator.
Item1a ==
    [links |-> [attachment |-> [href |-> Href1, attachmentType |-> Pdf]],
     data |-> [creators |-> <<Author(<<"L", "i">>)>>,
               title |-> <<"A", " ", "b">>],
     meta |-> [parsedDate |-> <<"2", "0", "2", "1", "-", "0", "5">>]]
Item1b ==
    [links |-> [attachment |-> [href |-> Href1, attachmentType |-> Pdf]],
     data |-> [creators |-> <<Author(<<"L", "i">>)>>,
               title |-> <<"C", "!">>],
     meta |-> [parsedDate |-> <<"2", "0", "2", "1", "-", "0", "5">>]]
Item1c ==
    [links |-> [attachment |-> [href |-> Href1, attachmentType |-> Pdf]],
     data |-> [creators |-> <<Author(<<"L", "i">>)>>,
               title |-> <<"A", "\t", "b">>],
     meta |-> [parsedDate |-> <<"2", "0", "2", "1", "-", "0", "5">>]]
\* Item I2: other metadata, the same derived name as Item1b.
Item2 ==
    [links |-> [attachment |-> [href |-> Href2, attachmentType |-> Pdf]],
     data |-> [creators |-> <<Editor(<<"A", "b">>), AuthorByName(<<"L", "I">>)>>,
               title |-> <<"_", "c">>],
     meta |-> [parsedDate |-> <<"5", "/", "2", "0", "2", "1">>]]
\* Item I3: its attachment is a web snapshot, not a PDF.
Item3 ==
    [links |-> [attachment |-> [href |-> Href3, attachmentType |-> Html]],
     data |-> [creators |-> <<>>, title |-> <<"é">>],
     meta |-> [numChildren |-> 1]]

\* Item I2 as the API lists it when its data hold no title.
Item2n ==
    [links |-> [attachment |-> [href |-> Href2, attachmentType |-> Pdf]],
     data |-> [creators |-> <<>>],
     meta |-> [numChildren |-> 1]]

ItemUniverse == {Item1a, Item1b, Item1c, Item2, Item2n, Item3}

MaxItems == 2

_item_id(item) ==
    LET parts == SplitOn(item.links.attachment.href, "/")
    IN  parts[Len(parts)]

_item_has_pdf_attachment(item) ==
    IF "attachment" \notin DOMAIN item.links THEN FALSE
    ELSE item.links.attachment.attachmentType = Pdf

\* The collections the API can list: items with distinct attachments.
Collections ==
    {c \in UNION {[1..n -> ItemUniverse] : n \in 0..MaxItems} :
        \A i, j \in 1..Len(c) :
            i # j => c[i].links.attachment.href # c[j].links.attachment.href}

IsAuthor(creator) == creator.creatorType = "author"

\* KeyError inside _item_path: an author with neither lastName nor name, or
\* an item without creators or title.
ItemPathRaises(item) ==
    \/ "creators" \notin DOMAIN item.data
    \/ "title" \notin DOMAIN item.data
    \/ \E i \in 1..Len(item.data.creators) :
           /\ IsAuthor(item.data.creators[i])
           /\ "lastName" \notin DOMAIN item.data.creators[i]
           /\ "name" \notin DOMAIN item.data.creators[i]

Noauthor == <<"n", "o", "a", "u", "t", "h", "o", "r">>

ItemYear(item) ==
    LET date == IF "parsedDate" \in DOMAIN item.meta
                THEN item.meta.parsedDate ELSE <<>>
        year == IF \E i \in 1..Len(date) : date[i] = "/"
                THEN LET p == SplitOn(date, "/") IN p[Len(p)]
                ELSE IF \E i \in 1..Len(date) : date[i] = "-"
                THEN SplitOn(date, "-")[1]
                ELSE date
    IN  IF Len(year) > 2 THEN SubSeq(year, Len(year) - 1, Len(year)) ELSE year

\* The file name of _item_path(item, export_path), relative to export_path.
_item_path(item) ==
    LET authors == SelectSeq(item.data.creators, IsAuthor)
        first_author_last_names ==
            [i \in 1..Len(authors) |->
                IF "lastName" \in DOMAIN authors[i]
                THEN authors[i].lastName ELSE authors[i].name]
            \o <<Noauthor>>
        first_author_last_name == _normalize_name(first_author_last_names[1])
        title == _normalize_name(item.data.title)
    IN  first_author_last_name \o ItemYear(item) \o <<"-">> \o title \o DotPdf

\* _item_id and _item_path of the items of the universe, as tables.
ItemIdOf ==
    [item \in {it \in ItemUniverse : "attachment" \in DOMAIN it.links} |->
        _item_id(item)]
ItemPathOf ==
    [item \in {it \in ItemUniverse : ~ItemPathRaises(it)} |-> _item_path(item)]

\* The list of the items _get_items keeps: those with a PDF attachment.
_get_items(c) == SelectSeq(c, _item_has_pdf_attachment)

(***************************************************************************)
(* The ledger file .zotero: None when missing, else Some(lines), each line *)
(* a string without the line end.                                          *)
(***************************************************************************)
\* Mutant: only a line with fewer than two fields raises.
ReadLockRaisesOnShortLines(lines) ==
    \E i \in 1..Len(lines) : Len(SplitWhitespace(lines[i])) < 2

\* The unpacking "for item_id, file_name in lock_lines" raises ValueError.
ReadLockRaises(lines) ==
    \E i \in 1..Len(lines) : Len(SplitWhitespace(lines[i])) # 2

\* lock_path.touch(): a missing file becomes an empty file.
Touch(lockfile) == IF lockfile = None THEN Some(<<>>) ELSE lockfile

\* The dict of _read_lock, file names relative to export_path; of several
\* lines with one identifier the last one counts.
_read_lock(lines) ==
    LET fields == [i \in 1..Len(lines) |-> SplitWhitespace(lines[i])]
        ids == {fields[i][1] : i \in 1..Len(lines)}
        last(id) == CHOOSE i \in 1..Len(lines) :
                        /\ fields[i][1] = id
                        /\ \A j \in (i + 1)..Len(lines) : fields[j][1] # id
    IN  [id \in ids |-> fields[last(id)][2]]

\* sorted(lock.items(), key=lambda item: item[0]) as a list of identifiers.
RECURSIVE SortedIds(_)
SortedIds(ids) ==
    IF ids = {} THEN <<>>
    ELSE LET least == CHOOSE a \in ids : \A b \in ids \ {a} : StrLess(a, b)
         IN  <<least>> \o SortedIds(ids \ {least})

\* Mutant: the file name is written before the identifier.
_write_lock_name_first(lk) ==
    LET order == SortedIds(DOMAIN lk)
    IN  [i \in 1..Len(order) |-> lk[order[i]] \o <<" ">> \o order[i]]

\* The lines _write_lock writes for the dict lk.
_write_lock(lk) ==
    LET order == SortedIds(DOMAIN lk)
    IN  [i \in 1..Len(order) |-> order[i] \o <<" ">> \o lk[order[i]]]

(***************************************************************************)
(* Directories are functions from file names to files.  A tree is what git *)
(* tracks: the files of the export directory, those of its subdirectory    *)
(* "other", and the ledger file.                                           *)
(***************************************************************************)
EmptyDir == <<>>

Remove(dir, name) == [n \in DOMAIN dir \ {name} |-> dir[n]]
Put(dir, name, file) ==
    [n \in DOMAIN dir \cup {name} |-> IF n = name THEN file ELSE dir[n]]

\* Path.rename on POSIX: an existing target is replaced silently; a rename
\* of a path to itself changes nothing.
Rename(dir, old, new) ==
    IF old = new THEN dir ELSE Put(Remove(dir, old), new, dir[old])

\* Mutant: the file keeps its name whether or not the name is taken.
_move_to_subdir_name_taken(name, subdir) == name

\* The name _move_to_subdir gives the file in the subdirectory.
_move_to_subdir_name(name, subdir) ==
    IF name \notin DOMAIN subdir THEN name
    ELSE LET candidate(n) == stem(name) \o <<".">> \o Str(n) \o suffix(name)
             increment == CHOOSE n \in 1..(Cardinality(DOMAIN subdir) + 1) :
                              /\ candidate(n) \notin DOMAIN subdir
                              /\ \A m \in 1..(n - 1) :
                                     candidate(m) \in DOMAIN subdir
         IN  candidate(increment)

\* Mutant: the file is copied into the subdirectory and stays where it is.
_move_to_subdir_copying(w, name) ==
    [w EXCEPT !.other = Put(w.other, _move_to_subdir_name(name, w.other),
                            w.files[name])]

\* _move_to_subdir on the working tree w.
_move_to_subdir(w, name) ==
    [w EXCEPT !.files = Remove(w.files, name),
              !.other = Put(w.other, _move_to_subdir_name(name, w.other),
                            w.files[name])]

\* A file of the working tree remembers the path it had when the run began
\* (None for a file the run created); git sees only the data.
File(orig, data) == [orig |-> orig, data |-> data]
DataOf(dir) == [n \in DOMAIN dir |-> dir[n].data]
TreeOf(w) == [files |-> DataOf(w.files), other |-> DataOf(w.other),
              lockfile |-> w.lockfile]
Checkout(tree) ==
    [files |-> [n \in DOMAIN tree.files |-> File(Some(n), tree.files[n])],
     other |-> [n \in DOMAIN tree.other |-> File(None, tree.other[n])],
     lockfile |-> tree.lockfile]

\* Mutant: the rewritten ledger always counts as a change.
is_dirty_always(w, headTree) == TRUE

\* repo.is_dirty(untracked_files=True)
is_dirty(w, headTree) == TreeOf(w) # headTree

\* existing_paths: the regular files of export_path with suffix ".pdf".
ExistingPaths(w) == {n \in DOMAIN w.files : suffix(n) = DotPdf}

\* Three-way merge of one path; a path a tree does not hold is None.
At(dir, n) == IF n \in DOMAIN dir THEN Some(dir[n]) ELSE None
MergeConflict(b, o, t) == o # t /\ o # b /\ t # b
MergeValue(b, o, t) == IF o = b THEN t ELSE o
DirConflict(b, o, t) ==
    \E n \in DOMAIN b \cup DOMAIN o \cup DOMAIN t :
        MergeConflict(At(b, n), At(o, n), At(t, n))
MergeDir(b, o, t) ==
    LET all == DOMAIN b \cup DOMAIN o \cup DOMAIN t
        kept == {n \in all : MergeValue(At(b, n), At(o, n), At(t, n)) # None}
    IN  [n \in kept |-> Value(MergeValue(At(b, n), At(o, n), At(t, n)))]
TreeConflict(b, o, t) ==
    \/ DirConflict(b.files, o.files, t.files)
    \/ DirConflict(b.other, o.other, t.other)
    \/ MergeConflict(b.lockfile, o.lockfile, t.lockfile)
MergeTree(b, o, t) ==
    [files |-> MergeDir(b.files, o.files, t.files),
     other |-> MergeDir(b.other, o.other, t.other),
     lockfile |-> MergeValue(b.lockfile, o.lockfile, t.lockfile)]

(***************************************************************************)
(* The run: state after construction.                                      *)
(***************************************************************************)
EmptyTree == [files |-> EmptyDir, other |-> EmptyDir, lockfile |-> None]

UserData(name) == <<"user", name>>
PdfData(item_id) == <<"pdf", item_id>>
ErrorData(item_id) == <<"error response", item_id>>

\* File names of files put into the repository by hand: one that an item
\* also derives, and one that is no PDF.
NameAB == <<"l", "i", "2", "1", "-", "a", "-", "b", ".", "p", "d", "f">>
NameTxt == <<"n", ".", "t", "x", "t">>

\* A repository that was filled by hand before the first run.
HandFilledTree ==
    [files |-> Put(Put(EmptyDir, NameAB, UserData(NameAB)),
                   NameTxt, UserData(NameTxt)),
     other |-> Put(EmptyDir, NameAB, UserData(<<"o", "l", "d">>)),
     lockfile |-> None]

\* A repository whose ledger was edited by hand: an entry and a blank line.
BlankLineTree ==
    [files |-> Put(EmptyDir, NameAB, UserData(NameAB)),
     other |-> EmptyDir,
     lockfile |-> Some(<<<<"I", "1", " ">> \o NameAB, <<>>>>)]

InitialTrees == {EmptyTree, HandFilledTree, BlankLineTree}

NoHist ==
    [downloaded |-> {}, renamed |-> {}, quarantined |-> {},
     lockWritten |-> FALSE, committed |-> FALSE, pushCalls |-> 0,
     pushed |-> FALSE, merged |-> FALSE, failedAt |-> "",
     lockChanged |-> FALSE, repeats |-> FALSE, repeatsMerged |-> FALSE,
     leftItems |-> <<>>, left |-> None, status |-> {}]

\* No clone on disk.
NoClone ==
    /\ items = <<>>
    /\ wt = Checkout(EmptyTree)
    /\ head = EmptyTree
    /\ baseTree = EmptyTree
    /\ behind = FALSE
    /\ trackingPushed = FALSE
    /\ lock = <<>>
    /\ todo_paths = {}
    /\ item_paths = <<>>
    /\ next_download = 1

Init ==
    /\ upstream \in InitialTrees
    /\ pc = "idle"
    /\ NoClone
    /\ runs = 0
    /\ otherPushes = 0
    /\ hist = NoHist
    /\ call = <<>>

(***************************************************************************)
(* Values _sync derives from item_paths.                                   *)
(***************************************************************************)
\* move_paths: old_path -> new_path; of two items with one old path the
\* later one counts.
move_paths(ips) ==
    LET olds == {Value(ips[i][2]) : i \in {j \in 1..Len(ips) : ips[j][2] # None}}
        last(old) == CHOOSE i \in 1..Len(ips) :
                         /\ ips[i][2] = Some(old)
                         /\ \A j \in (i + 1)..Len(ips) : ips[j][2] # Some(old)
    IN  [old \in olds |-> ips[last(old)][3]]

HasNoOldPath(ip) == ip[2] = None

\* Mutant: every item is downloaded, whatever the ledger says.
download_items_all(ips) == [i \in 1..Len(ips) |-> <<ips[i][1], ips[i][3]>>]

\* download_items: (item_id, new_path) of the items without old path.
download_items(ips) ==
    LET chosen == SelectSeq(ips, HasNoOldPath)
    IN  [i \in 1..Len(chosen) |-> <<chosen[i][1], chosen[i][3]>>]

\* lock = {item_id: new_path for item_id, _, new_path in item_paths}
new_lock(ips) ==
    LET ids == {ips[i][1] : i \in 1..Len(ips)}
        last(id) == CHOOSE i \in 1..Len(ips) :
                        /\ ips[i][1] = id
                        /\ \A j \in (i + 1)..Len(ips) : ips[j][1] # id
    IN  [id \in ids |-> ips[last(id)][3]]

\* Mutant: the run goes from the loop straight to the ledger.
AfterMovesWithoutDownloads(todo, ips) ==
    IF todo # {} THEN "move" ELSE "write"

\* Where the run continues once the loop over existing_paths has todo left.
AfterMoves(todo, ips) ==
    IF todo # {} THEN "move"
    ELSE IF download_items(ips) # <<>> THEN "download"
    ELSE "write"

Idle == pc \in {"idle", "done", "failed"}

\* Mutant: the first push comes before the pull.
StepAfterPushFirst(step) ==
    CASE step = "commit" -> "push1"
      [] step = "push1" -> "pull"
      [] step = "pull" -> "push2"
      [] step = "push2" -> "status"

\* Mutant: push is called once.
StepAfterOnePush(step) ==
    CASE step = "commit" -> "pull"
      [] step = "pull" -> "push1"
      [] step = "push1" -> "status"
      [] step = "push2" -> "status"

\* The order of the git calls of a run that commits.
StepAfter(step) ==
    CASE step = "commit" -> "pull"
      [] step = "pull" -> "push1"
      [] step = "push1" -> "push2"
      [] step = "push2" -> "status"

\* Leaving the "with TemporaryDirectory()" block removes the clone.
Cleanup ==
    /\ items' = <<>>
    /\ wt' = Checkout(EmptyTree)
    /\ head' = EmptyTree
    /\ baseTree' = EmptyTree
    /\ behind' = FALSE
    /\ trackingPushed' = FALSE
    /\ lock' = <<>>
    /\ todo_paths' = {}
    /\ item_paths' = <<>>
    /\ next_download' = 1

\* An exception leaves _sync at the given step; of the run's history only
\* the step and what the run did to the repository are kept.
Raise(step, h) ==
    /\ pc' = "failed"
    /\ hist' = [NoHist EXCEPT !.failedAt = step,
                              !.lockWritten = h.lockWritten,
                              !.committed = h.committed,
                              !.pushCalls = h.pushCalls,
                              !.pushed = h.pushed,
                              !.merged = h.merged,
                              !.status = h.status]
    /\ Cleanup

\* _sync returns; the history keeps the items of the run and the tree the
\* clone held at that moment.
Return(h, w) ==
    /\ pc' = "done"
    /\ hist' = [h EXCEPT !.leftItems = items, !.left = Some(TreeOf(w))]
    /\ Cleanup

(***************************************************************************)
(* The steps of _sync.                                                     *)
(***************************************************************************)
\* Clone the repository, read the ledger, list the existing PDF files, get
\* the collection items and compute item_paths.
Clone ==
    /\ Idle
    /\ runs < MaxRuns
    /\ \E c \in Collections :
        LET w0 == [Checkout(upstream) EXCEPT
                      !.lockfile = Touch(upstream.lockfile)]
            lines == Value(w0.lockfile)
            got == _get_items(c)
            lk == _read_lock(lines)
            ips == [i \in 1..Len(got) |->
                       <<ItemIdOf[got[i]],
                         IF ItemIdOf[got[i]] \in DOMAIN lk
                         THEN Some(lk[ItemIdOf[got[i]]]) ELSE None,
                         ItemPathOf[got[i]]>>]
            \* the run repeats a successful run: the same items, and the
            \* tree that run left
            \* (repeatsMerged: that run merged what somebody else pushed)
            again == /\ pc = "done"
                     /\ got = hist.leftItems
                     /\ Some(upstream) = hist.left
            h0 == [NoHist EXCEPT !.repeats = again,
                                 !.repeatsMerged = again /\ hist.merged]
        IN  /\ runs' = runs + 1
            /\ IF ReadLockRaises(lines)
               THEN Raise("read_lock", h0)
               ELSE IF \E i \in 1..Len(got) : ItemPathRaises(got[i])
               THEN Raise("item_path", h0)
               ELSE /\ pc' = AfterMoves(ExistingPaths(w0), ips)
                    /\ hist' = h0
                    /\ items' = got
                    /\ wt' = w0
                    /\ head' = upstream
                    /\ baseTree' = upstream
                    /\ behind' = FALSE
                    /\ trackingPushed' = TRUE
                    /\ lock' = lk
                    /\ todo_paths' = ExistingPaths(w0)
                    /\ item_paths' = ips
                    /\ next_download' = 1
    /\ UNCHANGED <<call, upstream, otherPushes>>

\* The body of the loop over existing_paths for one path.
MovePath(w, path, moves) ==
    IF path \in DOMAIN moves
    THEN [w EXCEPT !.files = Rename(w.files, path, moves[path])]
    ELSE _move_to_subdir(w, path)

\* The trees the loop can leave, one for each order in which a set can be
\* iterated.
RECURSIVE LoopResults(_, _, _)
LoopResults(w, todo, moves) ==
    IF todo = {} THEN {TreeOf(w)}
    ELSE UNION {LoopResults(MovePath(w, path, moves), todo \ {path}, moves) :
                   path \in todo}

\* One pass of the loop over existing_paths, in any order: a path that is
\* a key of move_paths is renamed, any other is moved to the subdirectory.
MoveStep ==
    /\ pc = "move"
    /\ \E path \in todo_paths :
        LET moves == move_paths(item_paths)
        IN  /\ wt' = MovePath(wt, path, moves)
            /\ IF path \in DOMAIN moves
               THEN /\ hist' = [hist EXCEPT !.renamed =
                                   IF moves[path] = path THEN @
                                   ELSE @ \cup {<<path, moves[path]>>}]
               ELSE /\ hist' = [hist EXCEPT !.quarantined = @ \cup {path}]
            /\ todo_paths' = todo_paths \ {path}
            /\ pc' = AfterMoves(todo_paths \ {path}, item_paths)
    /\ UNCHANGED <<call, upstream, items, head, baseTree, behind, trackingPushed,
                   lock, item_paths, next_download, runs, otherPushes>>

\* The attachments Zotero's file storage holds; for any other the file
\* request is answered with an error response (404).
StoredIds == {<<"I", "1">>}
ResponseContent(item_id) ==
    IF item_id \in StoredIds THEN PdfData(item_id) ELSE ErrorData(item_id)

\* session.get inside _download_pdf returns a response, or raises once the
\* retries are used up.
DownloadOutcomes == {"response", "exception"}

\* _download_pdf for the next entry of download_items.
DownloadStep ==
    /\ pc = "download"
    /\ \E outcome \in DownloadOutcomes :
        LET downloads == download_items(item_paths)
            item_id == downloads[next_download][1]
            new_path == downloads[next_download][2]
        IN  IF outcome = "exception"
            THEN Raise("download", hist)
            ELSE /\ wt' = [wt EXCEPT !.files =
                              Put(wt.files, new_path,
                                  File(None, ResponseContent(item_id)))]
                 /\ hist' = [hist EXCEPT !.downloaded = @ \cup {item_id}]
                 /\ next_download' = next_download + 1
                 /\ pc' = IF next_download < Len(downloads)
                          THEN "download" ELSE "write"
                 /\ UNCHANGED <<items, head, baseTree, behind,
                                trackingPushed, lock, todo_paths, item_paths>>
    /\ UNCHANGED <<call, upstream, runs, otherPushes>>

\* Write the ledger and return if the working tree is not dirty.
WriteLock ==
    /\ pc = "write"
    /\ LET w == [wt EXCEPT
                    !.lockfile = Some(_write_lock(new_lock(item_paths)))]
           h == [hist EXCEPT !.lockWritten = TRUE,
                             !.lockChanged = w.lockfile # baseTree.lockfile]
       IN  IF is_dirty(w, head)
           THEN /\ pc' = "commit"
                /\ wt' = w
                /\ hist' = h
                /\ UNCHANGED <<items, head, baseTree, behind, trackingPushed,
                               lock, todo_paths, item_paths, next_download>>
           ELSE Return(h, w)
    /\ UNCHANGED <<call, upstream, runs, otherPushes>>

\* repo.git.add(".") and repo.git.commit(...)
Commit ==
    /\ pc = "commit"
    /\ head' = TreeOf(wt)
    /\ trackingPushed' = FALSE
    /\ hist' = [hist EXCEPT !.committed = TRUE]
    /\ pc' = StepAfter(pc)
    /\ UNCHANGED <<call, upstream, items, wt, baseTree, behind, lock, todo_paths,
                   item_paths, next_download, runs, otherPushes>>

\* The working tree after a merge: files the merge did not touch stay.
MergedDir(dir, merged) ==
    [n \in DOMAIN merged |->
        IF n \in DOMAIN dir /\ dir[n].data = merged[n]
        THEN dir[n] ELSE File(None, merged[n])]

\* repo.git.pull(): nothing to do when upstream has not moved; otherwise a
\* merge of upstream into the new commit, which fails on a conflict (and
\* can fail like any network operation).
Pull ==
    /\ pc = "pull"
    /\ \E outcome \in {"ok", "exception"} :
        LET conflict == TreeConflict(baseTree, head, upstream)
            merged == MergeTree(baseTree, head, upstream)
        IN  IF outcome = "exception" \/ (behind /\ conflict)
            THEN Raise("pull", hist)
            ELSE /\ pc' = StepAfter(pc)
                 /\ IF behind
                    THEN /\ head' = merged
                         /\ wt' = [files |-> MergedDir(wt.files, merged.files),
                                   other |-> MergedDir(wt.other, merged.other),
                                   lockfile |-> merged.lockfile]
                         /\ behind' = FALSE
                         /\ hist' = [hist EXCEPT !.merged = TRUE]
                    ELSE UNCHANGED <<wt, head, behind, hist>>
                 /\ UNCHANGED <<items, baseTree, trackingPushed, lock,
                                todo_paths, item_paths, next_download>>
    /\ UNCHANGED <<call, upstream, runs, otherPushes>>

\* What repo.git.push() does: the push takes effect, it returns without
\* having taken effect ("the Git push seems to be forgotten"), or it raises.
PushOutcomes == {"applied", "forgotten", "exception"}

\* Mutant: the push is forced, a clone that is behind is not rejected.
PushForced ==
    /\ pc \in {"push1", "push2"}
    /\ \E outcome \in PushOutcomes :
        IF outcome = "exception"
        THEN /\ Raise(pc, hist)
             /\ UNCHANGED upstream
        ELSE /\ pc' = StepAfter(pc)
             /\ IF outcome = "applied" /\ ~trackingPushed
                THEN /\ upstream' = head
                     /\ trackingPushed' = TRUE
                     /\ hist' = [hist EXCEPT !.pushCalls = @ + 1,
                                             !.pushed = TRUE]
                ELSE /\ hist' = [hist EXCEPT !.pushCalls = @ + 1]
                     /\ UNCHANGED <<upstream, trackingPushed>>
             /\ UNCHANGED <<items, wt, head, baseTree, behind, lock,
                            todo_paths, item_paths, next_download>>
    /\ UNCHANGED <<call, runs, otherPushes>>

\* repo.git.push(), the first and the second call.
Push ==
    /\ pc \in {"push1", "push2"}
    /\ \E outcome \in PushOutcomes :
        \* a push from a clone that is behind is rejected
        IF outcome = "exception" \/ (outcome = "applied" /\ behind)
        THEN /\ Raise(pc, hist)
             /\ UNCHANGED upstream
        ELSE /\ pc' = StepAfter(pc)
             /\ IF outcome = "applied" /\ ~trackingPushed
                THEN /\ upstream' = head
                     /\ trackingPushed' = TRUE
                     /\ hist' = [hist EXCEPT !.pushCalls = @ + 1,
                                             !.pushed = TRUE]
                ELSE /\ hist' = [hist EXCEPT !.pushCalls = @ + 1]
                     /\ UNCHANGED <<upstream, trackingPushed>>
             /\ UNCHANGED <<items, wt, head, baseTree, behind, lock,
                            todo_paths, item_paths, next_download>>
    /\ UNCHANGED <<call, runs, otherPushes>>

\* The text of "git status": the branch line depends on the version of git
\* (before 2.15 it reads "up-to-date").
GitPhrasings == {"branch is up to date", "branch is up-to-date"}
StatusText(upToDate, clean, phrasing) ==
    (IF upToDate THEN {phrasing} ELSE {"branch is ahead"})
    \cup (IF clean THEN {"nothing to commit", "working tree clean"}
          ELSE {"Untracked files"})

StatusLines == {"branch is up to date", "nothing to commit", "working tree clean"}

\* status = repo.git.status(); raise RuntimeError unless all lines occur.
Status ==
    /\ pc = "status"
    /\ \E phrasing \in GitPhrasings :
        LET status == StatusText(trackingPushed, ~is_dirty(wt, head), phrasing)
        IN  IF StatusLines \subseteq status
            THEN Return([hist EXCEPT !.status = status], wt)
            ELSE Raise("status", [hist EXCEPT !.status = status])
    /\ UNCHANGED <<call, upstream, runs, otherPushes>>

(***************************************************************************)
(* The environment: somebody else pushes to the repository.                *)
(***************************************************************************)
\* The other writer adds a PDF by hand or deletes one.
OtherWriterEdits(tree) ==
    {[tree EXCEPT !.files = Put(tree.files, n, UserData(n))] :
        n \in {NameAB} \ DOMAIN tree.files}
    \cup {[tree EXCEPT !.files = Remove(tree.files, n)] :
        n \in {m \in DOMAIN tree.files : suffix(m) = DotPdf}}

\* The run sees upstream only when it clones, pulls and pushes: a push by
\* somebody else during the local steps is the same as one before the pull,
\* and one after the first push the same as one after the run.
OtherWriterPush ==
    /\ otherPushes < MaxOtherPushes
    /\ pc \in {"idle", "done", "failed", "pull", "push1"}
    /\ \E t \in OtherWriterEdits(upstream) : upstream' = t
    /\ behind' = ~Idle
    /\ otherPushes' = otherPushes + 1
    /\ UNCHANGED <<call, pc, items, wt, head, baseTree, trackingPushed, lock,
                   todo_paths, item_paths, next_download, runs, hist>>

Next ==
    \/ Clone
    \/ MoveStep
    \/ DownloadStep
    \/ WriteLock
    \/ Commit
    \/ Pull
    \/ Push
    \/ Status
    \/ OtherWriterPush

Spec == Init /\ [][Next]_vars

(***************************************************************************)
(* The ledger functions applied to a ledger: _write_lock, then _read_lock  *)
(* on the lines written.                                                   *)
(***************************************************************************)
MaxLedger == 2

\* No run is going on.
NoRun ==
    /\ upstream = EmptyTree
    /\ pc = "idle"
    /\ NoClone
    /\ runs = 0
    /\ otherPushes = 0
    /\ hist = NoHist

LedgerIds == {ItemIdOf[item] : item \in DOMAIN ItemIdOf}
LedgerNames == {ItemPathOf[item] : item \in DOMAIN ItemPathOf} \cup {NameTxt}

\* The dicts of at most MaxLedger entries.
Ledgers ==
    UNION {[ids -> LedgerNames] :
              ids \in {d \in SUBSET LedgerIds : Cardinality(d) <= MaxLedger}}

LedgerInit ==
    /\ NoRun
    /\ \E lk \in Ledgers : call = [arg |-> lk, written |-> None, read |-> None]

\* _write_lock(lock_path, lock)
SaveLedger ==
    /\ call.written = None
    /\ call' = [call EXCEPT !.written = Some(_write_lock(call.arg))]
    /\ UNCHANGED <<upstream, pc, local, runs, otherPushes, hist>>

\* _read_lock(lock_path, export_path) on the file written.
LoadLedger ==
    /\ call.written # None
    /\ call.read = None
    /\ LET lines == Value(Touch(call.written))
       IN  call' = [call EXCEPT !.read =
                       IF ReadLockRaises(lines)
                       THEN Some([raised |-> TRUE, lock |-> <<>>])
                       ELSE Some([raised |-> FALSE, lock |-> _read_lock(lines)])]
    /\ UNCHANGED <<upstream, pc, local, runs, otherPushes, hist>>

LedgerNext == SaveLedger \/ LoadLedger

LedgerSpec == LedgerInit /\ [][LedgerNext]_vars

(***************************************************************************)
(* _normalize_name applied to a string, and again to its result.           *)
(***************************************************************************)
MaxLen == 3

\* Letters, replaced punctuation, whitespace and the hyphen.
NameAlphabet == {"A", "b", "é", ".", "_", " ", "\t", "-"}

Names == UNION {[1..n -> NameAlphabet] : n \in 0..MaxLen}

NormalizeInit ==
    /\ NoRun
    /\ \E x \in Names : call = [arg |-> x, once |-> None, twice |-> None]

NormalizeOnce ==
    /\ call.once = None
    /\ call' = [call EXCEPT !.once = Some(_normalize_name(call.arg))]
    /\ UNCHANGED <<upstream, pc, local, runs, otherPushes, hist>>

NormalizeTwice ==
    /\ call.once # None
    /\ call.twice = None
    /\ call' = [call EXCEPT !.twice = Some(_normalize_name(Value(call.once)))]
    /\ UNCHANGED <<upstream, pc, local, runs, otherPushes, hist>>

NormalizeNext == NormalizeOnce \/ NormalizeTwice

NormalizeSpec == NormalizeInit /\ [][NormalizeNext]_vars

(***************************************************************************)
(* Properties.                                                             *)
(***************************************************************************)
\* The rename/quarantine loop and the downloads of the run are over.
Reconciled == pc \in {"write", "commit"}

\* The PDF files of the export directory when the run began.
StartPaths == {n \in DOMAIN baseTree.files : suffix(n) = DotPdf}

\* The places where the file that began the run at path p is now.
PlacesOf(p) ==
    {<<"export", n>> : n \in {m \in DOMAIN wt.files : wt.files[m].orig = Some(p)}}
    \cup {<<"other", n>> : n \in {m \in DOMAIN wt.other : wt.other[m].orig = Some(p)}}

\* C1 (no loss): once the renames, quarantine moves and downloads of a run
\* are done, every PDF file that was in the export directory when the run
\* began is on disk in exactly one place: its path, the path it was renamed
\* to, or the subdirectory.
C1_NoLoss ==
    Reconciled => \A p \in StartPaths : Cardinality(PlacesOf(p)) = 1

\* C2 (no collision): the target paths of the items of a run are pairwise
\* distinct.
C2_NoCollision ==
    \A i, j \in 1..Len(item_paths) :
        i # j => item_paths[i][3] # item_paths[j][3]

\* C3: after a run that ends in success every path the ledger records
\* names a file of the export directory.
C3_LedgerPathsExist ==
    pc = "done" =>
        LET tree == Value(hist.left)
            ledger == _read_lock(Value(tree.lockfile))
        IN  \A id \in DOMAIN ledger : ledger[id] \in DOMAIN tree.files

\* Nothing was renamed to another path, quarantined or downloaded so far.
OnlyNoops ==
    hist.renamed = {} /\ hist.quarantined = {} /\ hist.downloaded = {}

\* What a run that repeats a successful run must keep to.
ChangesNothing ==
    /\ OnlyNoops
    /\ pc # "download"
    /\ pc = "write" => new_lock(item_paths) = lock
    /\ hist.lockWritten => ~hist.lockChanged

NewOrStale(ip) == ip[2] = None \/ Value(ip[2]) \notin DOMAIN baseTree.files

\* C5: every item without ledger entry, or with a ledger entry whose file
\* was missing when the run began, is downloaded in the run.
C5_NewOrStaleDownloaded ==
    Reconciled =>
        \A i \in 1..Len(item_paths) :
            NewOrStale(item_paths[i]) => item_paths[i][1] \in hist.downloaded

\* The loop over existing_paths is over and nothing is downloaded yet.
LoopDone ==
    /\ pc \in {"download", "write"}
    /\ todo_paths = {}
    /\ hist.downloaded = {}

\* C6: an item whose ledger path was on disk when the run began is not
\* downloaded, and after the loop the file that was at the ledger path is
\* at the item's target path (renamed, or left in place when the two are
\* equal).
C6_KnownRenamedNotDownloaded ==
    \A i \in 1..Len(item_paths) :
        ~NewOrStale(item_paths[i]) =>
            /\ item_paths[i][1] \notin hist.downloaded
            /\ LoopDone =>
                   /\ item_paths[i][3] \in DOMAIN wt.files
                   /\ wt.files[item_paths[i][3]].orig = item_paths[i][2]

\* The ledger paths of the items of the run.
LedgerPathsInUse ==
    {Value(item_paths[i][2]) :
        i \in {j \in 1..Len(item_paths) : item_paths[j][2] # None}}

\* C7: every PDF file of the export directory that is the ledger path of no
\* item of the run is in the subdirectory after the loop, and nowhere else.
C7_OrphansQuarantined ==
    Reconciled =>
        \A p \in StartPaths \ LedgerPathsInUse :
            /\ \E n \in DOMAIN wt.other : wt.other[n].orig = Some(p)
            /\ \A n \in DOMAIN wt.files : wt.files[n].orig # Some(p)

\* The name stem.n.ext.
Numbered(name, n) == stem(name) \o <<".">> \o Str(n) \o suffix(name)

\* The file at path p went into the subdirectory under its own name if that
\* was free, else under stem.n.ext for the least n >= 1 that was free.
PlacedUnderFreeName(p) ==
    \E n \in DOMAIN wt'.other \ DOMAIN wt.other :
        /\ DOMAIN wt'.other = DOMAIN wt.other \cup {n}
        /\ wt'.other[n] = wt.files[p]
        /\ IF p \notin DOMAIN wt.other THEN n = p
           ELSE \E k \in 1..(Cardinality(DOMAIN wt.other) + 1) :
                    /\ n = Numbered(p, k)
                    /\ \A m \in 1..(k - 1) : Numbered(p, m) \in DOMAIN wt.other

\* C8: a quarantine move puts the file under the first free name and keeps
\* every file the subdirectory already holds.
C8_QuarantineKeepsFiles ==
    [][pc = "move" =>
          /\ \A n \in DOMAIN wt.other :
                 n \in DOMAIN wt'.other /\ wt'.other[n] = wt.other[n]
          /\ \A p \in hist'.quarantined \ hist.quarantined :
                 PlacedUnderFreeName(p)]_vars

\* A file was quarantined as .2 after two of its name.
C8_Witness ==
    /\ NameAB \in hist.quarantined
    /\ {NameAB, Numbered(NameAB, 1), Numbered(NameAB, 2)} \subseteq DOMAIN wt.other
    /\ \E n \in DOMAIN wt.other : wt.other[n].orig = Some(NameAB)

\* The run is past the rename/quarantine loop and the downloads and has
\* not raised.
PastDownloads == pc \in {"commit", "pull", "push1", "push2", "status", "done"}

\* C9, as claimed: a run of Noops only ends in success without a commit or
\* a push and without rewriting the ledger file.
C9_NoopShortCircuits ==
    (PastDownloads /\ OnlyNoops) =>
        /\ pc = "done"
        /\ ~hist.lockWritten
        /\ ~hist.committed
        /\ hist.pushCalls = 0

\* C9, amended: a run of Noops only whose rewritten ledger file is the one
\* it cloned ends in success without a commit or a push.
C9_UnchangedTreeShortCircuits ==
    (PastDownloads /\ OnlyNoops /\ ~hist.lockChanged) =>
        /\ pc = "done"
        /\ ~hist.committed
        /\ hist.pushCalls = 0

\* A run of Noops over a repository with items has returned.
C9_Witness ==
    /\ pc = "done"
    /\ OnlyNoops /\ ~hist.lockChanged /\ hist.lockWritten
    /\ hist.leftItems # <<>>

\* C10, as claimed: no push of a run that fails has taken effect.
C10_FailedRunPushedNothing == pc = "failed" => ~hist.pushed

\* C10, amended: no push of a run that fails before its first push has
\* taken effect.
C10_FailedBeforePushPushedNothing ==
    (pc = "failed" /\ hist.failedAt \notin {"push1", "push2", "status"})
        => ~hist.pushed

\* A run that committed has failed at its pull.
C10_Witness ==
    pc = "failed" /\ hist.failedAt = "pull" /\ hist.committed

\* C11: the file of an item never holds an error response: not in the
\* clone once the ledger is written, and not in the remote repository.
C11_NoErrorResponseStored ==
    /\ hist.lockWritten =>
           \A n \in DOMAIN wt.files : wt.files[n].data[1] # "error response"
    /\ \A n \in DOMAIN upstream.files :
           upstream.files[n][1] # "error response"

\* C12: a run that finds a malformed line in the ledger file of its clone
\* fails at once: nothing is renamed, quarantined or downloaded, the ledger
\* is not written, nothing is committed or pushed.
C12_MalformedLedgerFailsFirst ==
    [][(runs' = runs + 1
        /\ \E i \in 1..Len(Value(Touch(upstream.lockfile))) :
               Len(SplitWhitespace(Value(Touch(upstream.lockfile))[i])) # 2)
       => /\ pc' = "failed"
          /\ hist'.failedAt = "read_lock"
          /\ upstream' = upstream
          /\ hist'.renamed = {} /\ hist'.quarantined = {}
          /\ hist'.downloaded = {}
          /\ ~hist'.lockWritten /\ ~hist'.committed /\ hist'.pushCalls = 0]_vars

\* A run has failed at the ledger the run before it wrote and pushed.
C12_Witness ==
    /\ pc = "failed" /\ hist.failedAt = "read_lock"
    /\ runs = 2
    /\ upstream.lockfile # None
    /\ \E i \in 1..Len(Value(upstream.lockfile)) :
           Len(SplitWhitespace(Value(upstream.lockfile)[i])) = 3

\* C13: deriving the target path never ends the run.
C13_ItemPathNeverRaises == hist.failedAt # "item_path"

\* C14: a run that commits calls push a second time once the first call
\* has returned, reads the status after the second call, ends in success
\* only if the status text holds the three lines, and fails otherwise.
C14_SecondPushThenStatus ==
    /\ pc = "push2" => hist.pushCalls = 1
    /\ pc = "status" => hist.pushCalls = 2
    /\ hist.status # {} => hist.pushCalls = 2
    /\ (pc = "done" /\ hist.committed) =>
           {"branch is up to date", "nothing to commit", "working tree clean"}
               \subseteq hist.status
    /\ (hist.status # {}
        /\ ~({"branch is up to date", "nothing to commit",
              "working tree clean"} \subseteq hist.status)) =>
           (pc = "failed" /\ hist.failedAt = "status")

\* A run has failed at the status check although its push took effect.
C14_Witness ==
    /\ pc = "failed" /\ hist.failedAt = "status"
    /\ hist.pushed /\ hist.pushCalls = 2
    /\ "branch is up-to-date" \in hist.status

\* A string an entry of the ledger file can hold: not empty, no whitespace.
ValidField(f) == f # <<>> /\ \A i \in 1..Len(f) : f[i] \notin {" ", "\t", "\n"}

ValidLedger(lk) == \A id \in DOMAIN lk : ValidField(id) /\ ValidField(lk[id])

\* C15 (ledger round trip): for every ledger of valid identifiers and file
\* names, reading the lines _write_lock writes does not raise and gives the
\* ledger back.
C15_LedgerRoundTrip ==
    (call.read # None /\ ValidLedger(call.arg)) =>
        /\ ~Value(call.read).raised
        /\ Value(call.read).lock = call.arg

\* A ledger of two entries, written in the order of the identifiers, was
\* read back.
C15_Witness ==
    /\ call.read # None
    /\ ValidLedger(call.arg)
    /\ Cardinality(DOMAIN call.arg) = 2
    /\ \E a, b \in DOMAIN call.arg : a # b /\ call.arg[a] = call.arg[b]

\* C16 (normalisation is idempotent): normalising a normalised name gives
\* the same name.
C16_NormalizeIdempotent ==
    call.twice # None => call.twice = call.once

\* A name whose characters were replaced, collapsed and stripped was
\* normalised twice.
C16_Witness ==
    /\ call.twice # None
    /\ call.arg = <<"_", "A", ".">>
    /\ call.once = Some(<<"a">>)

\* The steps of a run after the loop, after the downloads, after the
\* ledger is written.
AfterLoop == {"download", "write", "commit", "pull", "push1", "push2", "status"}
AfterDownloads == AfterLoop \ {"download"}
AfterWrite == AfterDownloads \ {"write"}

\* The items of the run that have no ledger path.
ToDownload ==
    {item_paths[i][1] :
        i \in {j \in 1..Len(item_paths) : item_paths[j][2] = None}}

\* C17: the steps of a run come in the order load, rename/quarantine,
\* download, write ledger, commit, pull, push, push, status; a commit is
\* made, and anything pushed, only after every existing file was visited,
\* every download is done and the ledger is written.
C17_StepsInOrder ==
    /\ pc \in AfterLoop => todo_paths = {}
    /\ pc = "move" => (hist.downloaded = {} /\ ~hist.lockWritten)
    /\ pc = "download" => ~hist.lockWritten
    /\ pc \in AfterDownloads => hist.downloaded = ToDownload
    /\ pc \in AfterWrite => hist.lockWritten
    /\ pc \in {"commit", "pull"} =>
           wt.lockfile = Some(_write_lock(new_lock(item_paths)))
    /\ pc \in {"move", "download", "write", "commit"} => ~hist.committed
    /\ pc \in {"pull", "push1", "push2", "status"} => hist.committed
    /\ hist.committed => hist.lockWritten
    /\ hist.merged => hist.committed
    /\ pc \in {"move", "download", "write", "commit", "pull", "push1"} =>
           (hist.pushCalls = 0 /\ ~hist.pushed)
    /\ hist.pushed => hist.committed
    /\ hist.status # {} => hist.pushCalls = 2

\* A run that renamed one file and downloaded another has reached the
\* status check with its commit pushed.
C17_Witness ==
    /\ pc = "status"
    /\ hist.renamed # {} /\ hist.downloaded # {}
    /\ hist.pushed

\* C18, as claimed: a run does not end in success when somebody else has
\* pushed between its clone and its push; here: between clone and pull.
C18_RaceNeverSucceeds == pc = "done" => ~hist.merged

\* C18, amended: a run whose clone is behind the remote repository when it
\* pushes changes nothing there and does not end in success; whatever a run
\* pushes is its HEAD, which holds every commit of the remote repository.
C18_RaceAtPushRejected ==
    [][otherPushes' = otherPushes =>
          /\ upstream' # upstream => (~behind /\ upstream' = head)
          /\ (behind /\ pc \in {"push1", "push2", "status"}) =>
                 (upstream' = upstream /\ pc' # "done")]_vars

\* Somebody else has pushed between the pull and the first push of a run.
C18_Witness == pc = "push1" /\ behind /\ hist.committed

\* The working tree of the clone when the loop over existing_paths begins.
StartTree ==
    [Checkout(baseTree) EXCEPT !.lockfile = Touch(baseTree.lockfile)]

\* C19: the tree the loop over existing_paths leaves does not depend on the
\* order in which the loop visits the paths.
C19_LoopOrderIndependent ==
    LoopDone =>
        LoopResults(StartTree, ExistingPaths(StartTree),
                    move_paths(item_paths)) = {TreeOf(wt)}

\* C20: after the renames, quarantine moves and downloads of a run every
\* PDF file of the export directory is at the target path of an item of the
\* run, which the ledger the run writes records.
C20_ExportFilesAreTargets ==
    Reconciled =>
        \A n \in DOMAIN wt.files :
            suffix(n) = DotPdf =>
                /\ \E i \in 1..Len(item_paths) : item_paths[i][3] = n
                /\ \E id \in DOMAIN new_lock(item_paths) :
                       new_lock(item_paths)[id] = n

\* A run has renamed a file, quarantined another and downloaded a third.
C20_Witness ==
    /\ Reconciled
    /\ hist.renamed # {} /\ hist.quarantined # {} /\ hist.downloaded # {}
    /\ \E n \in DOMAIN wt.files : suffix(n) = DotPdf

====
